---- MODULE Spec2Model ----
(***************************************************************************)
(* Model of the remote configuration synchronisation of ConfigManager:     *)
(* the background thread CheckUpdateThread (SendHeartbeat,                  *)
(* FetchPipelineConfig, UpdateRemoteConfig, DeleteHandlers,                 *)
(* GetLocalConfigUpdate, StartUpdateConfig) and the foreground consumer     *)
(* that drains a published update and calls FinishUpdateConfig.             *)
(*                                                                         *)
(* A version file <dir>/<name>@<version>.yaml is the pair <<name,version>>; *)
(* the content of a file is <<>> (an empty file) or the detail the server   *)
(* sent, written <<name, version>> of the config it describes.              *)
(***************************************************************************)
EXTENDS Integers, Sequences, FiniteSets, TLC

\* ---------------------------------------------------------------- bounds
MaxVersion == 2   \* versions the server assigns are 1..MaxVersion
MaxResults == 2   \* check results the server reports in one run, all heartbeats together
MaxTime == 2      \* sync cycles that call the config server in one run
MaxClock == 3     \* time(NULL) as UpdateAccessKey reads it is in 0..MaxClock
request_access_key_interval == 2   \* INT32_FLAG(request_access_key_interval), seconds
MaxUpdates == 2
\* configs registered with the path matcher
MaxConfigs == 2
\* UpdateFileTags calls in one run
MaxTagUpdates == 3   \* updates the producer assembles in one run of the handoff

\* ------------------------------------------------------------- constants
Names == {"a", "b"}
Versions == 1..MaxVersion
NEW_ == "NEW"    \* configserver::proto::NEW (NEW is a reserved word)
MODIFIED == "MODIFIED"
DELETED == "DELETED"
UNCHANGED_ == "UNCHANGED"    \* configserver::proto::UNCHANGED
NORMAL == "NORMAL"
UPDATE_CONFIG == "UPDATE_CONFIG"
StatusCodes == {200, 400, 401, 403, 500}
EmptyContent == <<>>
Aliuids == {"u1", "u2"}
Cells == {1, 2}    \* the pieces of shared update data, in the order they are stored
NotLoaded == -1

VARIABLES
    mUpdateStat,        \* volatile CheckUpdateStat mUpdateStat
    mThreadIsRunning,   \* volatile bool mThreadIsRunning
    mHandlersToDelete,  \* handlers waiting for DeleteHandlers
    serverAvailable,    \* AppConfig::GetConfigServerAvailable()
    dirExists,          \* the remote config directory exists
    files,              \* version files: <<name, version>> -> content
    dirChanged,         \* the directory differs from what was last loaded
    pendingBatch,       \* the update assembled by GetLocalConfigUpdate
    mNameConfigMap,     \* the configs the foreground serves
    now,                \* time(NULL) of the current cycle
    pc,                 \* position of CheckUpdateThread
    cpc,                \* position of the foreground consumer
    requestId,          \* request id of the request in progress
    httpResponse,       \* sdk::HttpMessage httpResponse
    respRequestId,      \* request_id() of the parsed response
    reported,           \* check results reported so far
    checkResults,       \* result of SendHeartbeat
    configDetails,      \* result of FetchPipelineConfig
    fetchReq,           \* req_configs of the fetch request
    i,                  \* loop index of UpdateRemoteConfig
    configName, oldConfigPath, newConfigPath, configDetail, streamOk,
    httpLog,            \* sign / send / flush calls of the request in progress
    hbOutcome,          \* how SendHeartbeat of this cycle ended
    fetchOutcome,       \* how FetchPipelineConfig of this cycle ended
    cycleStartStat,     \* mUpdateStat when the cycle began
    newApplied,         \* NEW results of this cycle applied with their detail:
                        \* <<path, whether the file could be opened>>
    skipped,            \* whether the local check was skipped with a change
                        \* waiting, and whether that change was published since
    mUserInfos,         \* aliuid -> UserInfo (accessKeyId, accessKey, updateTime)
    curTime,            \* time(NULL) as UpdateAccessKey reads it
    akResult,           \* return value and lastUpdateTime of the last UpdateAccessKey
    sharedData,         \* handoff: cell -> number of the update last stored in it
    generation,         \* handoff: number of the update the producer assembled last
    producerPc,         \* handoff: position of the producer
    consumerPc,         \* handoff: position of the consumer
    loaded,             \* handoff: what the consumer's loads of the cells returned
    loadedAt,           \* handoff: mUpdateStat at the time of each of these loads
    registered,         \* path matcher: the configs in order of registration
    mCacheFileConfigMap, \* path -> (best config, whether several configs tie)
    lastMatch,          \* path, result and origin of the last FindBestMatch
    answered,           \* path -> result of FindBestMatch since the last registration
    currentBuffer,      \* mFileTags: int currentBuffer
    buffers,            \* mFileTags: T buffers[2], each the number of the update it holds
    tagUpdates,         \* UpdateFileTags calls so far
    writerPc,           \* position of UpdateFileTags
    writerSlot,         \* the slot getWriteBuffer returned to UpdateFileTags
    readerPc,           \* position of the caller of GetFileTags
    readerSlot,         \* the slot GetFileTags returned to its caller
    tagsRead            \* what the caller read through the reference

vars == <<mUpdateStat, mThreadIsRunning, mHandlersToDelete, serverAvailable,
          dirExists, files, dirChanged, pendingBatch, mNameConfigMap, now,
          pc, cpc, requestId, httpResponse, respRequestId, reported, checkResults, configDetails,
          fetchReq, i, configName, oldConfigPath, newConfigPath, configDetail,
          streamOk, httpLog, hbOutcome, fetchOutcome, cycleStartStat,
          newApplied, skipped, mUserInfos, curTime, akResult,
          sharedData, generation, producerPc, consumerPc, loaded, loadedAt,
          registered, mCacheFileConfigMap, lastMatch, answered,
          currentBuffer, buffers, tagUpdates, writerPc, writerSlot, readerPc,
          readerSlot, tagsRead>>

\* ------------------------------------------------------ protocol records
\* ConfigCheckResult as the server fills it: fields a status does not use
\* keep the protobuf default 0.
CheckResult(n, s, o, v) == [name |-> n, check_status |-> s, old_version |-> o, new_version |-> v]

CheckResultsOf(n) ==
    {CheckResult(n, NEW_, 0, v) : v \in Versions}
    \cup {CheckResult(n, DELETED, o, 0) : o \in Versions}
    \cup {CheckResult(n, UNCHANGED_, v, v) : v \in Versions}
    \cup {CheckResult(n, MODIFIED, o, v) : o \in Versions, v \in Versions}

\* Result lists of a heartbeat: at most one entry per name, in name order.
NameOrder == <<"a", "b">>

RECURSIVE ResultLists(_)
ResultLists(k) ==
    IF k > Len(NameOrder) THEN {<<>>}
    ELSE LET rest == ResultLists(k + 1)
         IN  rest \cup {<<r>> \o l : r \in CheckResultsOf(NameOrder[k]), l \in rest}

HeartbeatResults == ResultLists(1)

\* A default-constructed configserver::proto::ConfigDetail.
DefaultDetail == [name |-> "", version |-> 0, detail |-> EmptyContent]

\* The detail the server holds for a config.
ServerDetail(n, v) == [name |-> n, version |-> v, detail |-> <<n, v>>]

RECURSIVE SubSeqs(_)
SubSeqs(s) ==
    IF s = <<>> THEN {<<>>}
    ELSE LET rest == SubSeqs(Tail(s))
         IN  rest \cup {<<Head(s)>> \o l : l \in rest}

\* sdk::Base64Enconde: an injective encoding of its argument.
Base64Enconde(s) == <<"b64", s>>

HeartbeatRequestId(t) == Base64Enconde(<<"heartbeat", t>>)
FetchRequestId(t) == Base64Enconde(<<"instance_", t>>)

\* The request id comparison left out.
IdMismatch_Never(respId, reqId) == FALSE

\* strcmp(a.c_str(), b.c_str()) != 0 on request ids without embedded NUL.
IdMismatch(respId, reqId) == respId # reqId

\* The status test without 400.
IsAuthError_No400(statusCode) == statusCode = 401 \/ statusCode = 403

IsAuthError(statusCode) == statusCode = 400 \/ statusCode = 401 \/ statusCode = 403

\* ----------------------------------------------------------- file system
NoResponse == [statusCode |-> 0]

Exists(path) == path \in DOMAIN files

\* remove() taking every version file of the name with it.
RemoveFile_AllVersions(fs, path) == [q \in {r \in DOMAIN fs : r[1] # path[1]} |-> fs[q]]

\* remove(path): the file is deleted; a missing file is no error to the caller.
RemoveFile(fs, path) == [q \in (DOMAIN fs) \ {path} |-> fs[q]]

WriteFile(fs, path, content) == [q \in (DOMAIN fs) \cup {path} |-> IF q = path THEN content ELSE fs[q]]

ConfigPath(n, v) == <<n, v>>

VersionFilesOf(fs, n) == {p \in DOMAIN fs : p[1] = n}

InitialDirs == {<<>>, WriteFile(<<>>, ConfigPath("a", 1), <<"a", 1>>)}

\* ----------------------------------------------------------- path matcher
\* A pattern segment that matches any directory name.
Wildcard == "*"

\* Config* NULL: no config matches.
NoConfig == 0

\* No FindBestMatch call for the path since the last registration.
Unasked == -1

\* The directory paths looked up, as sequences of segments.
MatchPaths == {<<"a">>, <<"a", "b">>}

\* The patterns configs are registered with: base path segments, literal or
\* wildcard, and the depth bound below the base path.
MatchPatterns ==
    {[segs |-> <<"a">>, depth |-> 1],
     [segs |-> <<"a", "b">>, depth |-> 0],
     [segs |-> <<"a", Wildcard>>, depth |-> 0],
     [segs |-> <<Wildcard, "b">>, depth |-> 0]}

\* ---------------------------------------------------------- DoubleBuffer
\* T buffers[2]
Slots == {0, 1}

\* T& getWriteBuffer() { return buffers[currentBuffer]; }
getWriteBuffer(current) == current

\* T& getReadBuffer() { return buffers[1 - currentBuffer]; }
getReadBuffer(current) == 1 - current

\* void swap() { currentBuffer = 1 - currentBuffer; }
swap(current) == 1 - current

\* A vector read while it was being written: neither the old nor the new tags.
Torn == -1

\* -------------------------------------------------------------- initial
InitWith(available) ==
    /\ mUpdateStat = NORMAL
    /\ mThreadIsRunning = TRUE
    /\ mHandlersToDelete = {}
    /\ serverAvailable = available
    /\ files \in InitialDirs
    /\ dirExists = (files # <<>>)
    /\ dirChanged = FALSE
    /\ pendingBatch = {}
    /\ mNameConfigMap = DOMAIN files
    /\ now = 0
    /\ pc = "sleep"
    /\ cpc = "idle"
    /\ requestId = <<>>
    /\ httpResponse = NoResponse
    /\ respRequestId = <<>>
    /\ reported = 0
    /\ checkResults = <<>>
    /\ configDetails = <<>>
    /\ fetchReq = <<>>
    /\ i = 0
    /\ configName = ""
    /\ oldConfigPath = <<>>
    /\ newConfigPath = <<>>
    /\ configDetail = DefaultDetail
    /\ streamOk = TRUE
    /\ httpLog = <<>>
    /\ hbOutcome = "none"
    /\ fetchOutcome = "none"
    /\ cycleStartStat = NORMAL
    /\ newApplied = {}
    /\ skipped = "none"
    /\ mUserInfos = [u \in Aliuids |-> [accessKeyId |-> "", accessKey |-> "", updateTime |-> 0]]
    /\ curTime = 0
    /\ akResult = [aliuid |-> "", ret |-> FALSE, lastUpdateTime |-> 0]
    /\ sharedData = [k \in Cells |-> 0]
    /\ generation = 0
    /\ producerPc = "idle"
    /\ consumerPc = "idle"
    /\ loaded = [k \in Cells |-> NotLoaded]
    /\ loadedAt = [k \in Cells |-> "none"]
    /\ registered = <<>>
    /\ mCacheFileConfigMap = <<>>
    /\ lastMatch = [path |-> <<>>, config |-> NoConfig, how |-> "none"]
    /\ answered = [q \in MatchPaths |-> Unasked]
    /\ currentBuffer = 0
    /\ buffers = [k \in Slots |-> 0]
    /\ tagUpdates = 0
    /\ writerPc = "idle"
    /\ writerSlot = 0
    /\ readerPc = "idle"
    /\ readerSlot = 0
    /\ tagsRead = 0

\* The agent started with a config server configured.
Init == InitWith(TRUE)

\* The agent started without a config server: GetConfigServerAvailable() is
\* false from the start.
InitLocal == InitWith(FALSE)

\* ------------------------------------------------- update state accessors
StartUpdateConfig == mUpdateStat' = UPDATE_CONFIG

FinishUpdateConfig == mUpdateStat' = NORMAL

\* IsUpdate that never reports an update in progress.
IsUpdate_Never == FALSE

IsUpdate == mUpdateStat # NORMAL

IsUpdateConfig == mUpdateStat = UPDATE_CONFIG

\* ----------------------------------------------------------- server side
\* The request ids a response to a request made at time t can carry: the id
\* of that request, or the id of an earlier one (a stale response).
ResponseIds(kind, t) == {Base64Enconde(<<kind, t>>), Base64Enconde(<<kind, t - 1>>)}

\* The result lists a heartbeat response can carry.
ResponseResults == {l \in HeartbeatResults : Len(l) <= MaxResults - reported}

RECURSIVE DetailsFor(_)
DetailsFor(req) ==
    IF req = <<>> THEN <<>>
    ELSE <<ServerDetail(Head(req).name, Head(req).version)>> \o DetailsFor(Tail(req))

\* The details a fetch response can carry: those of some of the requested
\* configs.
ResponseDetails(req) == SubSeqs(DetailsFor(req))

\* Entries of httpLog.
Signed == [op |-> "sign", status |-> 0]
Flushed == [op |-> "flush", status |-> 0]
Sent(statusCode) == [op |-> "send", status |-> statusCode]
Threw == [op |-> "send", status |-> -1]

\* ------------------------------------------------------ CheckUpdateThread
threadLocals == <<requestId, httpResponse, respRequestId, checkResults, configDetails,
                  fetchReq, i, configName, oldConfigPath, newConfigPath, configDetail,
                  streamOk>>
applyLocals == <<i, configName, oldConfigPath, newConfigPath, configDetail, streamOk>>
shared == <<mUpdateStat, mHandlersToDelete, dirChanged, pendingBatch, mNameConfigMap>>
disk == <<dirExists, files>>
ghosts == <<httpLog, hbOutcome, fetchOutcome, cycleStartStat, reported>>
env == <<mThreadIsRunning, serverAvailable, now, cpc>>
credentials == <<mUserInfos, curTime, akResult>>
handoff == <<sharedData, generation, producerPc, consumerPc, loaded, loadedAt>>
matcher == <<registered, mCacheFileConfigMap, lastMatch, answered>>
fileTags == <<currentBuffer, buffers, tagUpdates, writerPc, writerSlot, readerPc,
              readerSlot, tagsRead>>
offline == <<credentials, handoff, matcher, fileTags, skipped>>

\* BeginCycle without the test of GetConfigServerAvailable.
BeginCycle_IgnoreAvailable ==
    /\ pc = "sleep"
    /\ mThreadIsRunning
    /\ now < MaxTime
    /\ now' = now + 1
    /\ cycleStartStat' = mUpdateStat
    /\ hbOutcome' = "none"
    /\ fetchOutcome' = "none"
    /\ pc' = "hb_start"
    /\ UNCHANGED <<offline, newApplied, mThreadIsRunning, serverAvailable, cpc, shared, disk, threadLocals,
                   httpLog, reported>>

\* while (mThreadIsRunning) { if (curTime - lastCheckTime >= checkInterval) {
BeginCycle ==
    /\ pc = "sleep"
    /\ mThreadIsRunning
    /\ serverAvailable => now < MaxTime
    /\ now' = IF serverAvailable THEN now + 1 ELSE now
    /\ cycleStartStat' = mUpdateStat
    /\ hbOutcome' = "none"
    /\ fetchOutcome' = "none"
    /\ pc' = IF serverAvailable THEN "hb_start" ELSE "check_delete"
    /\ UNCHANGED <<offline, newApplied, mThreadIsRunning, serverAvailable, cpc, shared, disk, threadLocals,
                   httpLog, reported>>

\* The while condition fails: the thread returns.
ThreadExit ==
    /\ pc = "sleep"
    /\ ~mThreadIsRunning
    /\ pc' = "done"
    /\ UNCHANGED <<offline, newApplied, env, shared, disk, threadLocals, ghosts>>

\* SendHeartbeat: request id, GenerateHeartBeatRequest, first SignHeader.
HbStart ==
    /\ pc = "hb_start"
    /\ requestId' = HeartbeatRequestId(now)
    /\ httpLog' = <<Signed>>
    /\ pc' = "hb_send"
    /\ UNCHANGED <<offline, newApplied, env, shared, disk, httpResponse, respRequestId, checkResults,
                   configDetails, fetchReq, applyLocals,
                   hbOutcome, fetchOutcome, cycleStartStat, reported>>

\* SendHeartbeat: the first client.Send and the test of the status code.
HbSend ==
    /\ pc = "hb_send"
    /\ \/ /\ httpLog' = Append(httpLog, Threw)
          /\ hbOutcome' = "exception"
          /\ pc' = "hb_return"
          /\ UNCHANGED httpResponse
       \/ \E code \in StatusCodes :
            /\ httpLog' = Append(httpLog, Sent(code))
            /\ httpResponse' = [statusCode |-> code]
            /\ pc' = IF IsAuthError(code) THEN "hb_flush" ELSE "hb_parse"
            /\ UNCHANGED hbOutcome
    /\ UNCHANGED <<offline, newApplied, env, shared, disk, requestId, respRequestId, checkResults,
                   configDetails, fetchReq, applyLocals,
                   fetchOutcome, cycleStartStat, reported>>

\* SendHeartbeat: FlushCredential after an auth error status.
HbFlush ==
    /\ pc = "hb_flush"
    /\ httpLog' = Append(httpLog, Flushed)
    /\ \E flushed \in BOOLEAN :
         IF flushed
         THEN /\ pc' = "hb_resend"
              /\ UNCHANGED hbOutcome
         ELSE /\ hbOutcome' = "flush_failed"
              /\ pc' = "hb_return"
    /\ UNCHANGED <<offline, newApplied, env, shared, disk, requestId, httpResponse, respRequestId,
                   checkResults, configDetails, fetchReq, applyLocals,
                   fetchOutcome, cycleStartStat, reported>>

\* SendHeartbeat: second SignHeader and second client.Send.
HbResend ==
    /\ pc = "hb_resend"
    /\ \/ /\ httpLog' = httpLog \o <<Signed, Threw>>
          /\ hbOutcome' = "exception"
          /\ pc' = "hb_return"
          /\ UNCHANGED httpResponse
       \/ \E code \in StatusCodes :
            /\ httpLog' = httpLog \o <<Signed, Sent(code)>>
            /\ httpResponse' = [statusCode |-> code]
            /\ pc' = "hb_parse"
            /\ UNCHANGED hbOutcome
    /\ UNCHANGED <<offline, newApplied, env, shared, disk, requestId, respRequestId, checkResults,
                   configDetails, fetchReq, applyLocals,
                   fetchOutcome, cycleStartStat, reported>>

\* SendHeartbeat: ParseFromString and the request id comparison.
HbParse ==
    /\ pc = "hb_parse"
    /\ \E id \in ResponseIds("heartbeat", now) :
         /\ respRequestId' = id
         /\ hbOutcome' = IF IdMismatch(id, requestId) THEN "mismatch" ELSE "ok"
    /\ pc' = "hb_return"
    /\ UNCHANGED <<offline, newApplied, env, shared, disk, requestId, httpResponse, checkResults,
                   configDetails, fetchReq, applyLocals,
                   httpLog, fetchOutcome, cycleStartStat, reported>>

\* SendHeartbeat: the return statements, emptyResult or
\* heartBeatResp.pipeline_check_results().
HbReturn ==
    /\ pc = "hb_return"
    /\ \E results \in (IF hbOutcome = "ok" THEN ResponseResults ELSE {<<>>}) :
         /\ checkResults' = results
         /\ reported' = reported + Len(results)
    /\ httpResponse' = NoResponse
    /\ httpLog' = <<>>
    /\ pc' = "after_hb"
    /\ UNCHANGED <<offline, newApplied, env, shared, disk, requestId, respRequestId,
                   configDetails, fetchReq, applyLocals,
                   hbOutcome, fetchOutcome, cycleStartStat>>

\* AfterHb without the size test: the fetch is always made.
AfterHb_AlwaysFetch ==
    /\ pc = "after_hb"
    /\ pc' = "fetch_start"
    /\ requestId' = <<>>
    /\ respRequestId' = <<>>
    /\ UNCHANGED <<offline, newApplied, env, shared, disk, httpResponse, checkResults, configDetails,
                   fetchReq, applyLocals, ghosts>>

\* if (checkResults.size() > 0) ... else GetOneConfigServerAddress(true)
AfterHb ==
    /\ pc = "after_hb"
    /\ pc' = IF Len(checkResults) > 0 THEN "fetch_start" ELSE "check_delete"
    /\ requestId' = <<>>
    /\ respRequestId' = <<>>
    /\ UNCHANGED <<offline, newApplied, env, shared, disk, httpResponse, checkResults, configDetails,
                   fetchReq, applyLocals, ghosts>>

\* ----------------------------------------------------- FetchPipelineConfig
\* The req_configs of the fetch request: one ConfigInfo per check result
\* whose status is not DELETED.
RECURSIVE ConfigInfos(_)
ConfigInfos(results) ==
    IF results = <<>> THEN <<>>
    ELSE LET r == Head(results)
             rest == ConfigInfos(Tail(results))
         IN  IF r.check_status # DELETED
             THEN <<[name |-> r.name, version |-> r.new_version]>> \o rest
             ELSE rest

\* FetchPipelineConfig: request id and request body.
FetchStart ==
    /\ pc = "fetch_start"
    /\ requestId' = FetchRequestId(now)
    /\ fetchReq' = ConfigInfos(checkResults)
    /\ pc' = "fetch_send"
    /\ UNCHANGED <<offline, newApplied, env, shared, disk, httpResponse, respRequestId, checkResults,
                   configDetails, applyLocals, ghosts>>

\* FetchPipelineConfig: the single client.Send.
FetchSend ==
    /\ pc = "fetch_send"
    /\ \/ /\ httpLog' = Append(httpLog, Threw)
          /\ fetchOutcome' = "exception"
          /\ configDetails' = <<>>
          /\ pc' = "after_fetch"
          /\ UNCHANGED httpResponse
       \/ \E code \in StatusCodes :
            /\ httpLog' = Append(httpLog, Sent(code))
            /\ httpResponse' = [statusCode |-> code]
            /\ pc' = "fetch_parse"
            /\ UNCHANGED <<fetchOutcome, configDetails>>
    /\ UNCHANGED <<offline, newApplied, env, shared, disk, requestId, respRequestId, checkResults,
                   fetchReq, applyLocals, hbOutcome, cycleStartStat, reported>>

\* FetchPipelineConfig: ParseFromString, request id comparison, return of
\* emptyResult or fetchConfigResp.config_details().
FetchParse ==
    /\ pc = "fetch_parse"
    /\ \E id \in ResponseIds("instance_", now) :
         /\ respRequestId' = id
         /\ IF IdMismatch(id, requestId)
            THEN /\ fetchOutcome' = "mismatch"
                 /\ configDetails' = <<>>
            ELSE /\ fetchOutcome' = "ok"
                 /\ configDetails' \in ResponseDetails(fetchReq)
    /\ pc' = "after_fetch"
    /\ UNCHANGED <<offline, newApplied, env, shared, disk, requestId, httpResponse, checkResults,
                   fetchReq, applyLocals, httpLog, hbOutcome, cycleStartStat, reported>>

\* The test between FetchPipelineConfig and UpdateRemoteConfig.
ApplyAfterFetch == Len(checkResults) > 0

\* if (checkResults.size() > 0) UpdateRemoteConfig(...) else switch server
AfterFetch ==
    /\ pc = "after_fetch"
    /\ pc' = IF ApplyAfterFetch THEN "apply_dir" ELSE "check_delete"
    /\ requestId' = <<>>
    /\ respRequestId' = <<>>
    /\ httpResponse' = NoResponse
    /\ httpLog' = <<>>
    /\ fetchReq' = <<>>
    /\ UNCHANGED <<offline, newApplied, env, shared, disk, checkResults, configDetails, applyLocals,
                   hbOutcome, fetchOutcome, cycleStartStat, reported>>

\* ------------------------------------------------------ UpdateRemoteConfig
\* A lookup that never finds the detail: the detail kept from before is used.
FindDetail_Kept(details, n, kept) == kept

\* The first detail whose name is n, or the detail kept from before when
\* there is none.
RECURSIVE FindDetail(_, _, _)
FindDetail(details, n, kept) ==
    IF details = <<>> THEN kept
    ELSE IF Head(details).name = n THEN Head(details)
    ELSE FindDetail(Tail(details), n, kept)

CurResult == checkResults[i + 1]

\* The directory test at the head of UpdateRemoteConfig.
ApplyDir ==
    /\ pc = "apply_dir"
    /\ i' = 0
    /\ IF dirExists
       THEN /\ pc' = "apply_loop"
            /\ UNCHANGED <<dirExists, serverAvailable>>
       ELSE \E res \in BOOLEAN :
              IF res
              THEN /\ dirExists' = TRUE
                   /\ pc' = "apply_loop"
                   /\ UNCHANGED serverAvailable
              ELSE /\ serverAvailable' = FALSE
                   /\ pc' = "check_delete"
                   /\ UNCHANGED dirExists
    /\ UNCHANGED <<offline, newApplied, mThreadIsRunning, now, cpc, shared, files,
                   requestId, httpResponse, respRequestId, checkResults, configDetails, fetchReq,
                   configName, oldConfigPath, newConfigPath, configDetail, streamOk, ghosts>>

\* Head of the for loop: the loop test, then configName, oldConfigPath,
\* configDetail and newConfigPath of entry i.
ApplyLoop ==
    /\ pc = "apply_loop"
    /\ IF i < Len(checkResults)
       THEN /\ configName' = CurResult.name
            /\ oldConfigPath' = IF CurResult.check_status # NEW_
                                THEN ConfigPath(CurResult.name, CurResult.old_version)
                                ELSE oldConfigPath
            /\ configDetail' = IF CurResult.check_status # DELETED
                               THEN FindDetail(configDetails, CurResult.name, configDetail)
                               ELSE configDetail
            /\ newConfigPath' = ConfigPath(CurResult.name, CurResult.new_version)
            /\ pc' = "apply_switch"
            /\ UNCHANGED <<checkResults, configDetails>>
       ELSE /\ configName' = ""
            /\ oldConfigPath' = <<>>
            /\ newConfigPath' = <<>>
            /\ configDetail' = DefaultDetail
            /\ checkResults' = <<>>
            /\ configDetails' = <<>>
            /\ pc' = "check_delete"
    /\ UNCHANGED <<offline, newApplied, env, shared, disk,
                   requestId, httpResponse, respRequestId, fetchReq, i, streamOk, ghosts>>

\* case DELETED: remove(oldConfigPath).
ApplyDeleted ==
    /\ pc = "apply_switch"
    /\ CurResult.check_status = DELETED
    /\ files' = RemoveFile(files, oldConfigPath)
    /\ dirChanged' = (dirChanged \/ Exists(oldConfigPath))
    /\ i' = i + 1
    /\ pc' = "apply_loop"
    /\ UNCHANGED <<offline, newApplied, env, dirExists,
                   mUpdateStat, mHandlersToDelete, pendingBatch, mNameConfigMap,
                   requestId, httpResponse, respRequestId, checkResults, configDetails, fetchReq,
                   configName, oldConfigPath, newConfigPath, configDetail, streamOk, ghosts>>

\* case MODIFIED: remove(oldConfigPath), the first statement of the case.
ApplyModifiedRemove ==
    /\ pc = "apply_switch"
    /\ CurResult.check_status = MODIFIED
    /\ files' = RemoveFile(files, oldConfigPath)
    /\ dirChanged' = (dirChanged \/ Exists(oldConfigPath))
    /\ pc' = "apply_open"
    /\ UNCHANGED <<offline, newApplied, env, dirExists,
                   mUpdateStat, mHandlersToDelete, pendingBatch, mNameConfigMap,
                   requestId, httpResponse, respRequestId, checkResults, configDetails, fetchReq, i,
                   configName, oldConfigPath, newConfigPath, configDetail, streamOk, ghosts>>

\* newConfig.open(newConfigPath, ios::out) of the MODIFIED and NEW cases:
\* creates or truncates the file, or fails and leaves the stream unusable.
ApplyOpen ==
    /\ \/ pc = "apply_open"
       \/ pc = "apply_switch" /\ CurResult.check_status = NEW_
    /\ \E opened \in BOOLEAN :
         /\ streamOk' = opened
         /\ IF opened
            THEN /\ files' = WriteFile(files, newConfigPath, EmptyContent)
                 /\ dirChanged' = TRUE
            ELSE UNCHANGED <<files, dirChanged>>
    /\ pc' = "apply_write"
    /\ UNCHANGED <<offline, newApplied, env, dirExists,
                   mUpdateStat, mHandlersToDelete, pendingBatch, mNameConfigMap,
                   requestId, httpResponse, respRequestId, checkResults, configDetails, fetchReq, i,
                   configName, oldConfigPath, newConfigPath, configDetail, ghosts>>

\* newConfig << configDetail.detail(); newConfig.close(); break;
ApplyWrite ==
    /\ pc = "apply_write"
    /\ IF streamOk
       THEN files' = WriteFile(files, newConfigPath, configDetail.detail)
       ELSE UNCHANGED files
    /\ newApplied' = IF /\ CurResult.check_status = NEW_
                        /\ \E k \in 1..Len(configDetails) : configDetails[k].name = configName
                     THEN newApplied \cup {<<newConfigPath, streamOk>>}
                     ELSE newApplied
    /\ streamOk' = TRUE
    /\ i' = i + 1
    /\ pc' = "apply_loop"
    /\ UNCHANGED <<offline, env, dirExists, shared,
                   requestId, httpResponse, respRequestId, checkResults, configDetails, fetchReq,
                   configName, oldConfigPath, newConfigPath, configDetail, ghosts>>

\* default: break;
ApplyDefault ==
    /\ pc = "apply_switch"
    /\ CurResult.check_status = UNCHANGED_
    /\ i' = i + 1
    /\ pc' = "apply_loop"
    /\ UNCHANGED <<offline, newApplied, env, shared, disk,
                   requestId, httpResponse, respRequestId, checkResults, configDetails, fetchReq,
                   configName, oldConfigPath, newConfigPath, configDetail, streamOk, ghosts>>

\* ------------------------------------------- local update check and publish
\* CheckDelete without the test of the update state.
CheckDelete_Unguarded ==
    /\ pc = "check_delete"
    /\ pc' = "delete_handlers"
    /\ UNCHANGED <<offline, newApplied, env, shared, disk, threadLocals, ghosts>>

\* if (!IsUpdate()) DeleteHandlers(); : the test of the update state.
CheckDelete ==
    /\ pc = "check_delete"
    /\ pc' = IF ~IsUpdate THEN "delete_handlers" ELSE "check_local"
    /\ UNCHANGED <<offline, newApplied, env, shared, disk, threadLocals, ghosts>>

\* DeleteHandlers(): the handlers on the list are freed and the list is
\* cleared.
DeleteHandlers ==
    /\ pc = "delete_handlers"
    /\ mHandlersToDelete' = {}
    /\ pc' = "check_local"
    /\ UNCHANGED <<offline, newApplied, env, disk,
                   mUpdateStat, dirChanged, pendingBatch, mNameConfigMap,
                   threadLocals, ghosts>>

\* CheckLocal without the test of the update state.
CheckLocal_Unguarded ==
    /\ pc = "check_local"
    /\ pc' = "get_local"
    /\ UNCHANGED <<credentials, handoff, matcher, fileTags, skipped, newApplied, env, shared, disk,
                   threadLocals, ghosts>>

\* if (!IsUpdate() && ...: the test of the update state.
CheckLocal ==
    /\ pc = "check_local"
    /\ pc' = IF ~IsUpdate THEN "get_local" ELSE "loop_end"
    /\ skipped' = IF IsUpdate /\ dirChanged THEN "skipped" ELSE skipped
    /\ UNCHANGED <<credentials, handoff, matcher, fileTags, newApplied, env, shared, disk,
                   threadLocals, ghosts>>

\* GetLocalConfigUpdate(): true when the config files changed since they were
\* last loaded; the update is then assembled in the shared data.
GetLocalConfigUpdate ==
    /\ pc = "get_local"
    /\ IF dirChanged
       THEN /\ pendingBatch' = DOMAIN files
            /\ dirChanged' = FALSE
            /\ pc' = "start_update"
       ELSE /\ pc' = "loop_end"
            /\ UNCHANGED <<pendingBatch, dirChanged>>
    /\ UNCHANGED <<offline, newApplied, env, disk,
                   mUpdateStat, mHandlersToDelete, mNameConfigMap,
                   threadLocals, ghosts>>

\* ... && GetLocalConfigUpdate()) StartUpdateConfig();
Publish ==
    /\ pc = "start_update"
    /\ StartUpdateConfig
    /\ pc' = "loop_end"
    /\ skipped' = IF skipped = "skipped" THEN "published" ELSE skipped
    /\ UNCHANGED <<credentials, handoff, matcher, fileTags, newApplied, env, disk,
                   mHandlersToDelete, dirChanged, pendingBatch, mNameConfigMap,
                   threadLocals, ghosts>>

\* The end of the iteration without the test of the flag: always sleep(1).
LoopEnd_AlwaysSleep ==
    /\ pc = "loop_end"
    /\ pc' = "sleep"
    /\ newApplied' = {}
    /\ skipped' = IF skipped = "published" THEN "none" ELSE skipped
    /\ UNCHANGED <<credentials, handoff, matcher, fileTags, env, shared, disk,
                   threadLocals, ghosts>>

\* if (mThreadIsRunning) sleep(1); else break;
LoopEnd ==
    /\ pc = "loop_end"
    /\ pc' = IF mThreadIsRunning THEN "sleep" ELSE "done"
    /\ newApplied' = {}
    /\ skipped' = IF skipped = "published" THEN "none" ELSE skipped
    /\ UNCHANGED <<credentials, handoff, matcher, fileTags, env, shared, disk,
                   threadLocals, ghosts>>

\* ------------------------------------------------------ foreground thread
\* The foreground clears the running flag.
Stop ==
    /\ mThreadIsRunning
    /\ mThreadIsRunning' = FALSE
    /\ UNCHANGED <<offline, newApplied, serverAvailable, now, pc, cpc, shared, disk, threadLocals, ghosts>>

\* The consumer observes a published update.
ConsumerObserve ==
    /\ cpc = "idle"
    /\ IsUpdateConfig
    /\ cpc' = "apply"
    /\ UNCHANGED <<offline, newApplied, mThreadIsRunning, serverAvailable, now, pc, shared, disk,
                   threadLocals, ghosts>>

\* The consumer applies the pending operations; replaced handlers go to the
\* deferred-delete list.
ConsumerApply ==
    /\ cpc = "apply"
    /\ mNameConfigMap' = pendingBatch
    /\ mHandlersToDelete' = mHandlersToDelete \cup {"h"}
    /\ cpc' = "finish"
    /\ UNCHANGED <<offline, newApplied, mThreadIsRunning, serverAvailable, now, pc, disk,
                   mUpdateStat, dirChanged, pendingBatch, threadLocals, ghosts>>

\* The consumer publishes completion.
ConsumerFinish ==
    /\ cpc = "finish"
    /\ FinishUpdateConfig
    /\ cpc' = "idle"
    /\ UNCHANGED <<offline, newApplied, mThreadIsRunning, serverAvailable, now, pc, disk,
                   mHandlersToDelete, dirChanged, pendingBatch, mNameConfigMap,
                   threadLocals, ghosts>>

\* ------------------------------------------------------------ specification
Next ==
    \/ BeginCycle
    \/ ThreadExit
    \/ HbStart
    \/ HbSend
    \/ HbFlush
    \/ HbResend
    \/ HbParse
    \/ HbReturn
    \/ AfterHb
    \/ FetchStart
    \/ FetchSend
    \/ FetchParse
    \/ AfterFetch
    \/ ApplyDir
    \/ ApplyLoop
    \/ ApplyDeleted
    \/ ApplyModifiedRemove
    \/ ApplyOpen
    \/ ApplyWrite
    \/ ApplyDefault
    \/ CheckDelete
    \/ DeleteHandlers
    \/ CheckLocal
    \/ GetLocalConfigUpdate
    \/ Publish
    \/ LoopEnd
    \/ Stop
    \/ ConsumerObserve
    \/ ConsumerApply
    \/ ConsumerFinish

Spec == Init /\ [][Next]_vars

\* The steps of CheckUpdateThread and those of the foreground consumer.
ThreadNext ==
    \/ BeginCycle
    \/ ThreadExit
    \/ HbStart
    \/ HbSend
    \/ HbFlush
    \/ HbResend
    \/ HbParse
    \/ HbReturn
    \/ AfterHb
    \/ FetchStart
    \/ FetchSend
    \/ FetchParse
    \/ AfterFetch
    \/ ApplyDir
    \/ ApplyLoop
    \/ ApplyDeleted
    \/ ApplyModifiedRemove
    \/ ApplyOpen
    \/ ApplyWrite
    \/ ApplyDefault
    \/ CheckDelete
    \/ DeleteHandlers
    \/ CheckLocal
    \/ GetLocalConfigUpdate
    \/ Publish
    \/ LoopEnd

ConsumerNext ==
    \/ ConsumerObserve
    \/ ConsumerApply
    \/ ConsumerFinish

\* Cancellation: the sync thread, and the foreground clearing the running
\* flag. The thread is scheduled again and again and every call it makes
\* returns or throws.
NextCancel ==
    \/ ThreadNext
    \/ Stop

SpecCancel == Init /\ [][NextCancel]_vars /\ WF_vars(ThreadNext)

\* A config file under the local config directory is edited, added or
\* removed by the user.
LocalChange ==
    /\ ~dirChanged
    /\ dirChanged' = TRUE
    /\ UNCHANGED <<offline, newApplied, env, pc, disk, mUpdateStat, mHandlersToDelete,
                   pendingBatch, mNameConfigMap, threadLocals, ghosts>>

\* The agent without a config server: the local update check of
\* CheckUpdateThread, the foreground consumer and the user's edits. Both
\* threads are scheduled again and again.
NextLocal ==
    \/ BeginCycle
    \/ ThreadExit
    \/ CheckDelete
    \/ DeleteHandlers
    \/ CheckLocal
    \/ GetLocalConfigUpdate
    \/ Publish
    \/ LoopEnd
    \/ Stop
    \/ ConsumerObserve
    \/ ConsumerApply
    \/ ConsumerFinish
    \/ LocalChange

SpecLocal == InitLocal /\ [][NextLocal]_vars /\ WF_vars(ThreadNext) /\ WF_vars(ConsumerNext)

\* ----------------------------------------------------------- access keys
syncVars == <<mUpdateStat, mThreadIsRunning, mHandlersToDelete, serverAvailable,
              dirExists, files, dirChanged, pendingBatch, mNameConfigMap, now,
              pc, cpc, threadLocals, ghosts, newApplied, skipped>>

exceptCredentials == <<syncVars, handoff, matcher, fileTags>>

\* GetUserAK: the record of the account.
GetUserAK(aliuid) == mUserInfos[aliuid]

\* SetUserAK: the keys are stored and the record's update time becomes the
\* current time.
SetUserAK(aliuid, accessKeyId, accessKey) ==
    mUserInfos' = [mUserInfos EXCEPT ![aliuid] =
                     [accessKeyId |-> accessKeyId, accessKey |-> accessKey,
                      updateTime |-> curTime]]

\* UpdateAccessKey without the interval test.
UpdateAccessKey_NoLimit(aliuid) ==
    /\ SetUserAK(aliuid, GetUserAK(aliuid).accessKeyId, GetUserAK(aliuid).accessKey)
    /\ akResult' = [aliuid |-> aliuid, ret |-> TRUE,
                    lastUpdateTime |-> GetUserAK(aliuid).updateTime]
    /\ UNCHANGED <<curTime, exceptCredentials>>

\* bool ConfigManager::UpdateAccessKey(aliuid, accessKeyId, accessKey, lastUpdateTime)
UpdateAccessKey(aliuid) ==
    /\ LET info == GetUserAK(aliuid)
           lastUpdateTime == info.updateTime
       IN  IF (curTime - lastUpdateTime) < request_access_key_interval
           THEN /\ akResult' = [aliuid |-> aliuid, ret |-> FALSE,
                                lastUpdateTime |-> lastUpdateTime]
                /\ UNCHANGED mUserInfos
           ELSE /\ SetUserAK(aliuid, info.accessKeyId, info.accessKey)
                /\ akResult' = [aliuid |-> aliuid, ret |-> TRUE,
                                lastUpdateTime |-> lastUpdateTime]
    /\ UNCHANGED <<curTime, exceptCredentials>>

\* The system clock between two calls: it moves on, or is set (also back).
ClockChange ==
    /\ \E t \in 0..MaxClock : t # curTime /\ curTime' = t
    /\ UNCHANGED <<mUserInfos, akResult, exceptCredentials>>

NextAK ==
    \/ \E aliuid \in Aliuids : UpdateAccessKey(aliuid)
    \/ ClockChange

SpecAK == Init /\ [][NextAK]_vars

\* ------------------------------------------- handoff of the shared data
\* The publish and the observation of an update, with the memory accesses of
\* the two threads. mUpdateStat is a volatile enum, not an atomic object, and
\* the shared data is plain memory. ReadWriteBarrier is taken at its
\* strongest: no access of the thread moves across it. In StartUpdateConfig
\* and FinishUpdateConfig the barrier stands between the stores of the data
\* and the store of mUpdateStat. In IsUpdateConfig it stands before the load of
\* mUpdateStat, so nothing orders the consumer's loads of the shared data
\* after that load: each may be performed at any point after the barrier.
syncRest == <<mThreadIsRunning, mHandlersToDelete, serverAvailable,
              dirExists, files, dirChanged, pendingBatch, mNameConfigMap, now,
              pc, cpc, threadLocals, ghosts, newApplied, skipped>>
exceptHandoff == <<syncRest, credentials, matcher, fileTags>>

\* if (!IsUpdate() && GetLocalConfigUpdate()): a change is found while the
\* state is NORMAL and the producer starts to assemble update number
\* generation + 1.
ProducerCheck ==
    /\ producerPc = "idle"
    /\ ~IsUpdate
    /\ generation < MaxUpdates
    /\ generation' = generation + 1
    /\ producerPc' = "assemble"
    /\ UNCHANGED <<mUpdateStat, sharedData, consumerPc, loaded, loadedAt, exceptHandoff>>

\* GetLocalConfigUpdate stores the next piece of the update.
ProducerStore ==
    /\ producerPc = "assemble"
    /\ \E k \in Cells :
         /\ sharedData[k] # generation
         /\ \A j \in Cells : j < k => sharedData[j] = generation
         /\ sharedData' = [sharedData EXCEPT ![k] = generation]
    /\ UNCHANGED <<mUpdateStat, generation, producerPc, consumerPc, loaded, loadedAt, exceptHandoff>>

\* StartUpdateConfig(): ReadWriteBarrier(); mUpdateStat = UPDATE_CONFIG;
ProducerPublish ==
    /\ producerPc = "assemble"
    /\ \A k \in Cells : sharedData[k] = generation
    /\ StartUpdateConfig
    /\ producerPc' = "idle"
    /\ UNCHANGED <<sharedData, generation, consumerPc, loaded, loadedAt, exceptHandoff>>

\* IsUpdateConfig(): ReadWriteBarrier(); no load made before it is used after.
ConsumerBarrier ==
    /\ consumerPc = "idle"
    /\ consumerPc' = "poll"
    /\ loaded' = [k \in Cells |-> NotLoaded]
    /\ loadedAt' = [k \in Cells |-> "none"]
    /\ UNCHANGED <<mUpdateStat, sharedData, generation, producerPc, exceptHandoff>>

\* IsUpdateConfig(): return mUpdateStat == UPDATE_CONFIG;
ConsumerLoadStat ==
    /\ consumerPc = "poll"
    /\ IF IsUpdateConfig
       THEN /\ consumerPc' = "drain"
            /\ UNCHANGED <<loaded, loadedAt>>
       ELSE /\ consumerPc' = "idle"
            /\ loaded' = [k \in Cells |-> NotLoaded]
            /\ loadedAt' = [k \in Cells |-> "none"]
    /\ UNCHANGED <<mUpdateStat, sharedData, generation, producerPc, exceptHandoff>>

\* A load of a piece of the shared data by the consumer.
ConsumerLoadData(k) ==
    /\ consumerPc \in {"poll", "drain"}
    /\ loaded[k] = NotLoaded
    /\ loaded' = [loaded EXCEPT ![k] = sharedData[k]]
    /\ loadedAt' = [loadedAt EXCEPT ![k] = mUpdateStat]
    /\ UNCHANGED <<mUpdateStat, sharedData, generation, producerPc, consumerPc, exceptHandoff>>

\* FinishUpdateConfig(): ReadWriteBarrier(); mUpdateStat = NORMAL;
ConsumerDone ==
    /\ consumerPc = "drain"
    /\ \A k \in Cells : loaded[k] # NotLoaded
    /\ FinishUpdateConfig
    /\ consumerPc' = "idle"
    /\ loaded' = [k \in Cells |-> NotLoaded]
    /\ loadedAt' = [k \in Cells |-> "none"]
    /\ UNCHANGED <<sharedData, generation, producerPc, exceptHandoff>>

NextHandoff ==
    \/ ProducerCheck
    \/ ProducerStore
    \/ ProducerPublish
    \/ ConsumerBarrier
    \/ ConsumerLoadStat
    \/ \E k \in Cells : ConsumerLoadData(k)
    \/ ConsumerDone

SpecHandoff == Init /\ [][NextHandoff]_vars

\* ----------------------------------------------------- FindBestMatch
\* The path matcher of the foreground: registration of config patterns,
\* FindBestMatch with its cache mCacheFileConfigMap, ClearConfigMatchCache.
exceptMatcher == <<syncVars, credentials, handoff, fileTags>>

\* The pattern covers the path: the base path is the path or an ancestor of
\* it within the depth bound, every segment literal-equal or wildcard.
IsMatch(c, path) ==
    /\ Len(c.segs) <= Len(path)
    /\ Len(path) <= Len(c.segs) + c.depth
    /\ \A k \in 1..Len(c.segs) : c.segs[k] \in {Wildcard, path[k]}

\* Number of literal segments of the pattern.
LiteralSegments(c) == Cardinality({k \in 1..Len(c.segs) : c.segs[k] # Wildcard})

\* Length of the literal prefix of the pattern.
RECURSIVE LiteralPrefixFrom(_, _)
LiteralPrefixFrom(segs, k) ==
    IF k > Len(segs) \/ segs[k] = Wildcard THEN 0 ELSE 1 + LiteralPrefixFrom(segs, k + 1)

LiteralPrefix(c) == LiteralPrefixFrom(c.segs, 1)

SameSpecificity(c, d) ==
    /\ LiteralSegments(c) = LiteralSegments(d)
    /\ LiteralPrefix(c) = LiteralPrefix(d)

\* The comparison by the number of literal segments alone.
MoreSpecific_LiteralsOnly(c, d) == LiteralSegments(c) > LiteralSegments(d)

\* Specificity: literal segments outscore wildcard segments, the longer
\* literal prefix breaks ties.
MoreSpecific(c, d) ==
    \/ LiteralSegments(c) > LiteralSegments(d)
    \/ /\ LiteralSegments(c) = LiteralSegments(d)
       /\ LiteralPrefix(c) > LiteralPrefix(d)

\* The walk over the registered patterns in order of registration: a later
\* config replaces the best so far only when it is more specific.
RECURSIVE BestFrom(_, _, _)
BestFrom(path, k, best) ==
    IF k > Len(registered) THEN best
    ELSE BestFrom(path, k + 1,
                  IF /\ IsMatch(registered[k], path)
                     /\ (best = NoConfig \/ MoreSpecific(registered[k], registered[best]))
                  THEN k ELSE best)

BestMatch(path) == BestFrom(path, 1, NoConfig)

\* Another config matches the path with the specificity of the best one.
Ties(path, best) ==
    {k \in 1..Len(registered) :
        /\ k # best
        /\ IsMatch(registered[k], path)
        /\ SameSpecificity(registered[k], registered[best])}

\* The cache entry keeping the last config of a tie instead of the best.
CacheEntry_LastOfTie(path, best) ==
    IF best = NoConfig THEN [config |-> NoConfig, multi |-> FALSE]
    ELSE LET last == CHOOSE k \in Ties(path, best) \cup {best} :
                        \A j \in Ties(path, best) \cup {best} : j <= k
         IN  [config |-> last, multi |-> Ties(path, best) # {}]

\* The value stored in mCacheFileConfigMap: the best config and whether the
\* ambiguity alarm is due (several equally specific configs, the best one
\* not force-multi).
CacheEntry(path, best) ==
    IF best = NoConfig THEN [config |-> NoConfig, multi |-> FALSE]
    ELSE [config |-> best,
          multi |-> Ties(path, best) # {} /\ ~registered[best].forceMulti]

\* A config is registered with its pattern; cache entries computed against
\* the earlier registry are not served any more.
RegisterPattern(pattern, force) ==
    /\ Len(registered) < MaxConfigs
    /\ registered' = Append(registered,
                            [segs |-> pattern.segs, depth |-> pattern.depth,
                             forceMulti |-> force])
    /\ mCacheFileConfigMap' = <<>>
    /\ lastMatch' = [path |-> <<>>, config |-> NoConfig, how |-> "none"]
    /\ answered' = [q \in MatchPaths |-> Unasked]
    /\ UNCHANGED exceptMatcher

\* Config* FindBestMatch(path): the cached answer if there is one, else the
\* computed one, which is cached.
FindBestMatch(path) ==
    /\ IF path \in DOMAIN mCacheFileConfigMap
       THEN /\ lastMatch' = [path |-> path, config |-> mCacheFileConfigMap[path].config,
                             how |-> "cache"]
            /\ UNCHANGED mCacheFileConfigMap
       ELSE /\ lastMatch' = [path |-> path, config |-> BestMatch(path), how |-> "computed"]
            /\ mCacheFileConfigMap' =
                 [q \in DOMAIN mCacheFileConfigMap \cup {path} |->
                    IF q = path THEN CacheEntry(path, BestMatch(path))
                    ELSE mCacheFileConfigMap[q]]
    /\ answered' = [answered EXCEPT ![path] = lastMatch'.config]
    /\ UNCHANGED <<registered, exceptMatcher>>

\* void ClearConfigMatchCache()
ClearConfigMatchCache ==
    /\ mCacheFileConfigMap # <<>>
    /\ mCacheFileConfigMap' = <<>>
    /\ UNCHANGED <<registered, lastMatch, answered, exceptMatcher>>

NextMatch ==
    \/ \E pattern \in MatchPatterns, force \in BOOLEAN : RegisterPattern(pattern, force)
    \/ \E path \in MatchPaths : FindBestMatch(path)
    \/ ClearConfigMatchCache

SpecMatch == Init /\ [][NextMatch]_vars

\* ------------------------------------------------------------ file tags
\* mFileTags: UpdateFileTags, called by CheckUpdateThread every
\* file_tags_update_interval, fills the write buffer and swaps; GetFileTags
\* hands the read buffer to its caller by reference. No lock, no flag.
exceptFileTags == <<syncVars, credentials, handoff, matcher>>

\* UpdateFileTags: the reference to the write buffer is taken.
UpdateFileTagsBegin ==
    /\ writerPc = "idle"
    /\ tagUpdates < MaxTagUpdates
    /\ tagUpdates' = tagUpdates + 1
    /\ writerSlot' = getWriteBuffer(currentBuffer)
    /\ writerPc' = "fill"
    /\ UNCHANGED <<currentBuffer, buffers, readerPc, readerSlot, tagsRead, exceptFileTags>>

\* UpdateFileTags: the tags just read from the file are stored in the
\* write buffer.
UpdateFileTagsFill ==
    /\ writerPc = "fill"
    /\ buffers' = [buffers EXCEPT ![writerSlot] = tagUpdates]
    /\ writerPc' = "swap"
    /\ UNCHANGED <<currentBuffer, tagUpdates, writerSlot, readerPc, readerSlot, tagsRead,
                   exceptFileTags>>

\* UpdateFileTags: mFileTags.swap().
UpdateFileTagsSwap ==
    /\ writerPc = "swap"
    /\ currentBuffer' = swap(currentBuffer)
    /\ writerPc' = "idle"
    /\ UNCHANGED <<buffers, tagUpdates, writerSlot, readerPc, readerSlot, tagsRead,
                   exceptFileTags>>

\* std::vector<sls_logs::LogTag>& GetFileTags() { return mFileTags.getReadBuffer(); }
GetFileTags ==
    /\ readerPc = "idle"
    /\ readerSlot' = getReadBuffer(currentBuffer)
    /\ readerPc' = "reading"
    /\ UNCHANGED <<currentBuffer, buffers, tagUpdates, writerPc, writerSlot, tagsRead,
                   exceptFileTags>>

\* The caller reads the tags through the reference. A read of the slot that
\* UpdateFileTags is filling is a data race: it returns the old tags, the new
\* ones or neither.
ReadTags ==
    /\ readerPc = "reading"
    /\ IF writerPc = "fill" /\ writerSlot = readerSlot
       THEN tagsRead' \in {buffers[readerSlot], tagUpdates, Torn}
       ELSE tagsRead' = buffers[readerSlot]
    /\ UNCHANGED <<currentBuffer, buffers, tagUpdates, writerPc, writerSlot, readerPc,
                   readerSlot, exceptFileTags>>

\* The caller is done with the reference.
ReleaseTags ==
    /\ readerPc = "reading"
    /\ readerPc' = "idle"
    /\ UNCHANGED <<currentBuffer, buffers, tagUpdates, writerPc, writerSlot, readerSlot,
                   tagsRead, exceptFileTags>>

NextFileTags ==
    \/ UpdateFileTagsBegin
    \/ UpdateFileTagsFill
    \/ UpdateFileTagsSwap
    \/ GetFileTags
    \/ ReadTags
    \/ ReleaseTags

SpecFileTags == Init /\ [][NextFileTags]_vars

TypeOK ==
    /\ mUpdateStat \in {NORMAL, UPDATE_CONFIG}
    /\ now \in 0..MaxTime
    /\ i \in 0..Len(NameOrder)
    /\ reported \in 0..MaxResults
    /\ DOMAIN files \subseteq Names \X Versions
    /\ newApplied \subseteq (Names \X Versions) \X BOOLEAN
    /\ skipped \in {"none", "skipped", "published"}
    /\ curTime \in 0..MaxClock
    /\ \A u \in Aliuids : mUserInfos[u].updateTime \in 0..MaxClock

\* ------------------------------------------------------------- properties
HbPcs == {"hb_start", "hb_send", "hb_flush", "hb_resend", "hb_parse", "hb_return", "after_hb"}
FetchPcs == {"fetch_start", "fetch_send", "fetch_parse", "after_fetch"}
ApplyPcs == {"apply_dir", "apply_loop", "apply_switch", "apply_open", "apply_write"}

\* Number of entries of httpLog with the given op.
LogCount(op) == Cardinality({k \in 1..Len(httpLog) : httpLog[k].op = op})

\* C1: in a MODIFIED apply whose new version differs from the stored one, the
\* old version file is removed only when the new version file has been
\* written: no step removes name@old_version while name@new_version is absent.
C1_WriteBeforeRemove ==
    [][(/\ pc = "apply_switch"
        /\ CurResult.check_status = MODIFIED
        /\ CurResult.new_version # CurResult.old_version
        /\ oldConfigPath \in DOMAIN files
        /\ oldConfigPath \notin DOMAIN files')
       => newConfigPath \in DOMAIN files]_vars

\* C2: a name that has a version file keeps at least one version file through
\* every step of a MODIFIED apply.
C2_NeverZeroFiles ==
    [][(/\ pc \in {"apply_switch", "apply_open", "apply_write"}
        /\ CurResult.check_status = MODIFIED
        /\ VersionFilesOf(files, configName) # {})
       => VersionFilesOf(files', configName) # {}]_vars

\* C3: while the update state is UPDATE_CONFIG the sync thread makes no call of
\* GetLocalConfigUpdate and no call of StartUpdateConfig, and the pending batch
\* is not changed.
C3_BackPressure ==
    [][mUpdateStat = UPDATE_CONFIG
       => /\ pendingBatch' = pendingBatch
          /\ ~(pc = "get_local" /\ pc' # "get_local")
          /\ ~(pc = "start_update" /\ pc' # "start_update")]_vars

\* A cycle found the state UPDATE_CONFIG and skipped the local check although
\* the directory had changed.
C3_Witness ==
    /\ pc = "loop_end"
    /\ mUpdateStat = UPDATE_CONFIG
    /\ cycleStartStat = UPDATE_CONFIG
    /\ dirChanged

\* C4 as claimed: a cycle that begins while the update state is not NORMAL sends
\* no heartbeat, makes no fetch and applies nothing to the version files.
C4_CycleSkippedWhole ==
    cycleStartStat # NORMAL => pc \notin (HbPcs \cup FetchPcs \cup ApplyPcs)

\* C4 as amended: the update state gates only DeleteHandlers and the local
\* update check with its publish. While the state is not NORMAL, the thread
\* skips DeleteHandlers and goes from the state test straight to the end of the
\* iteration; the heartbeat is started in every cycle in which the config
\* server is available, whatever the update state.
C4_OnlyLocalPartGated ==
    [][/\ (pc = "check_delete" /\ pc' # pc /\ mUpdateStat # NORMAL)
          => /\ pc' = "check_local"
             /\ mHandlersToDelete' = mHandlersToDelete
       /\ (pc = "check_local" /\ pc' # "check_local" /\ mUpdateStat # NORMAL)
          => pc' = "loop_end"
       /\ (pc = "sleep" /\ pc' \notin {"sleep", "done"} /\ serverAvailable)
          => pc' = "hb_start"]_vars

\* A cycle that began in UPDATE_CONFIG got heartbeat results, changed the
\* directory and then skipped the local check.
C4_Witness ==
    /\ pc = "loop_end"
    /\ cycleStartStat = UPDATE_CONFIG
    /\ mUpdateStat = UPDATE_CONFIG
    /\ hbOutcome = "ok"
    /\ fetchOutcome = "ok"
    /\ dirChanged
    /\ mHandlersToDelete # {}

\* C5: the update state changes only from NORMAL to UPDATE_CONFIG, by the sync
\* thread after GetLocalConfigUpdate returned true, and from UPDATE_CONFIG to
\* NORMAL, by the consumer after it applied the batch; StartUpdateConfig is
\* never executed in state UPDATE_CONFIG.
C5_StateAlternates ==
    [][/\ mUpdateStat' # mUpdateStat
          => \/ /\ mUpdateStat = NORMAL
                /\ mUpdateStat' = UPDATE_CONFIG
                /\ pc = "start_update"
                /\ cpc = "idle"
                /\ cpc' = cpc
             \/ /\ mUpdateStat = UPDATE_CONFIG
                /\ mUpdateStat' = NORMAL
                /\ cpc = "finish"
                /\ mNameConfigMap = pendingBatch
                /\ pc' = pc
       /\ (pc = "start_update" /\ pc' # "start_update") => mUpdateStat = NORMAL]_vars

\* A published batch was applied and completed by the consumer, and the sync
\* thread published a second batch after it.
C5_Witness ==
    /\ mUpdateStat = UPDATE_CONFIG
    /\ cpc = "idle"
    /\ mHandlersToDelete # {}
    /\ now = 2

\* C6: in a cycle whose fetch failed (exception or request id mismatch) no
\* version file is created, overwritten or removed.
C6_NoWritesAfterFailedFetch ==
    [][(fetchOutcome \in {"exception", "mismatch"}) => files' = files]_vars

\* C7: in a cycle whose heartbeat failed with an exception SendHeartbeat
\* returns the empty result, no fetch is made and the version files stay as
\* they are.
C7_HeartbeatFailure ==
    /\ [](hbOutcome = "exception"
          => /\ checkResults = <<>>
             /\ pc \notin (FetchPcs \cup ApplyPcs))
    /\ [][hbOutcome' = "exception" => files' = files]_vars

\* The heartbeat of the second cycle threw, and the cycle went on to the local
\* check without a fetch, with version files on disk.
C7_Witness ==
    /\ hbOutcome = "exception"
    /\ pc = "check_delete"
    /\ DOMAIN files # {}
    /\ now = 2

C9_AuthAlwaysRetried ==
    (pc = "hb_return" /\ httpLog[2].status # -1)
    => IF httpLog[2].status \in {400, 401, 403}
       THEN /\ Len(httpLog) = 5
            /\ httpLog[3] = Flushed
            /\ httpLog[4] = Signed
            /\ httpLog[5].op = "send"
       ELSE httpLog = <<Signed, Sent(httpLog[2].status)>>

\* C9 as amended: when SendHeartbeat returns, a first status of 400, 401 or 403
\* has been followed by exactly one FlushCredential and, only when that call
\* returned true, by exactly one more SignHeader and one more Send; when it
\* returned false nothing more was signed or sent. Any other first status is
\* followed by no FlushCredential and no retry. The request is signed at most
\* twice and sent at most twice.
C9_AuthRetriedIfFlushed ==
    (pc = "hb_return" /\ httpLog[2].status # -1)
    => /\ httpLog[1] = Signed
       /\ httpLog[2].op = "send"
       /\ LogCount("sign") <= 2
       /\ LogCount("send") <= 2
       /\ IF httpLog[2].status \in {400, 401, 403}
          THEN IF hbOutcome = "flush_failed"
               THEN httpLog = <<Signed, httpLog[2], Flushed>>
               ELSE /\ Len(httpLog) = 5
                    /\ httpLog[3] = Flushed
                    /\ httpLog[4] = Signed
                    /\ httpLog[5].op = "send"
          ELSE httpLog = <<Signed, Sent(httpLog[2].status)>>

\* A heartbeat answered with 400 was retried after a successful
\* FlushCredential and the retry was answered.
C9_Witness ==
    /\ pc = "hb_return"
    /\ Len(httpLog) = 5
    /\ httpLog[2] = Sent(400)
    /\ httpLog[5] = Sent(200)
    /\ hbOutcome = "ok"

\* C10: when FetchPipelineConfig comes to parse a response, a first status of
\* 400, 401 or 403 has been followed by one credential refresh and one more
\* Send of the fetch request.
C10_FetchAuthRetried ==
    (pc = "fetch_parse" /\ httpLog[1].status \in {400, 401, 403})
    => /\ LogCount("flush") = 1
       /\ LogCount("send") = 2

\* The heartbeat got an auth error status and then FlushCredential failed, or
\* the second Send threw or was answered with an auth error status again.
HbAuthFailed ==
    /\ Len(httpLog) >= 3
    /\ httpLog[2].status \in {400, 401, 403}
    /\ \/ hbOutcome = "flush_failed"
       \/ /\ Len(httpLog) = 5
          /\ httpLog[5].status \in {-1, 400, 401, 403}

\* C11: when the heartbeat got an auth error status and the credential refresh
\* failed, or the retried request threw or got an auth error status again,
\* SendHeartbeat returns no result, so that the cycle fetches and applies
\* nothing.
C11_AuthFailureAborts ==
    [][(pc = "hb_return" /\ pc' = "after_hb" /\ HbAuthFailed)
       => checkResults' = <<>>]_vars

\* C12: applying a MODIFIED result whose new_version is the version stored for
\* the name changes no file: no step of that apply removes, truncates or
\* rewrites the version file.
C12_ModifiedSameVersionNoOp ==
    [][(/\ pc \in {"apply_switch", "apply_open", "apply_write"}
        /\ CurResult.check_status = MODIFIED
        /\ VersionFilesOf(files, configName) = {newConfigPath})
       => files' = files]_vars

\* C13: applying a DELETED result removes the version file of the name's old
\* version and no other file, and the loop goes on; applied when that file is
\* already gone (a second application), it changes neither the files nor any
\* other shared state.
C13_DeletedIdempotent ==
    [][(pc = "apply_switch" /\ pc' # pc /\ CurResult.check_status = DELETED)
       => LET removed == ConfigPath(CurResult.name, CurResult.old_version)
          IN  /\ DOMAIN files' = (DOMAIN files) \ {removed}
              /\ \A q \in DOMAIN files' : files'[q] = files[q]
              /\ pc' = "apply_loop"
              /\ removed \notin DOMAIN files
                 => /\ files' = files
                    /\ shared' = shared
                    /\ dirExists' = dirExists
                    /\ serverAvailable' = serverAvailable]_vars

\* The second cycle has applied DELETED for a@1 again: the file was removed in
\* the first cycle, that change was published, and the second application
\* left the directory unmarked.
C13_Witness ==
    /\ now = 2
    /\ pc = "apply_loop"
    /\ i = 1
    /\ checkResults[1] = CheckResult("a", DELETED, 1, 0)
    /\ files = <<>>
    /\ mNameConfigMap = {ConfigPath("a", 1)}
    /\ mUpdateStat = UPDATE_CONFIG
    /\ pendingBatch = {}
    /\ ~dirChanged

\* C14: the fetch request asks for exactly the (name, new_version) pairs of
\* the check results whose status is NEW or MODIFIED, and for none of a
\* DELETED or UNCHANGED result.
C14_FetchAsksNewOrModified ==
    pc \in {"fetch_send", "fetch_parse", "after_fetch"}
    => {<<fetchReq[k].name, fetchReq[k].version>> : k \in 1..Len(fetchReq)}
       = {<<checkResults[k].name, checkResults[k].new_version>> :
            k \in {j \in 1..Len(checkResults) :
                     checkResults[j].check_status \in {NEW_, MODIFIED}}}

\* C15: after the heartbeat the fetch request is made if and only if the
\* heartbeat returned at least one result whose status is not UNCHANGED.
C15_FetchIffChange ==
    [][(pc = "after_hb" /\ pc' # pc)
       => (pc' = "fetch_start"
           <=> \E k \in 1..Len(checkResults) :
                 checkResults[k].check_status # UNCHANGED_)]_vars

\* The version file p holds the content the server sent for it, and the change
\* is on its way to the foreground: the directory is marked changed until
\* GetLocalConfigUpdate has put p into the pending update, and a cycle that
\* began in state NORMAL ends with the update published (UPDATE_CONFIG) or
\* already drained, p then being among the configs served.
NewConfigServed(p) ==
    /\ p \in DOMAIN files
    /\ files[p] = ServerDetail(p[1], p[2]).detail
    /\ pc \in ApplyPcs \cup {"check_delete", "delete_handlers", "check_local", "get_local"}
       => dirChanged
    /\ pc = "start_update" => p \in pendingBatch
    /\ (pc = "loop_end" /\ cycleStartStat = NORMAL)
       => /\ ~dirChanged
          /\ p \in pendingBatch
          /\ \/ mUpdateStat = UPDATE_CONFIG /\ cpc \in {"idle", "apply"}
             \/ p \in mNameConfigMap

C17_FailedNameUntouched ==
    [][/\ (/\ pc \in {"apply_switch", "apply_open", "apply_write"}
           /\ CurResult.check_status \in {NEW_, MODIFIED}
           /\ \A k \in 1..Len(configDetails) : configDetails[k].name # configName)
          => files' = files
       /\ (pc = "apply_loop" /\ pc' = "check_delete") => i = Len(checkResults)
       /\ (pc \in {"apply_switch", "apply_open", "apply_write"} /\ pc' = "apply_loop")
          => i' = i + 1]_vars

\* C18: when the remote config directory is missing and cannot be created,
\* UpdateRemoteConfig changes no file and switches the config server off;
\* from then on the server stays off, no heartbeat, fetch or apply is in
\* progress, no file changes, and every cycle goes from its start straight to
\* the handler cleanup and the local update check.
C18_DirFailureDisablesSync ==
    [][/\ (pc = "apply_dir" /\ pc' # pc /\ ~dirExists')
          => /\ files' = files
             /\ ~serverAvailable'
             /\ pc' = "check_delete"
       /\ ~serverAvailable
          => /\ ~serverAvailable'
             /\ files' = files
             /\ pc' \notin (HbPcs \cup FetchPcs \cup ApplyPcs)
             /\ (pc = "sleep" /\ pc' \notin {"sleep", "done"}) => pc' = "check_delete"
             /\ (pc = "check_delete" /\ pc' # pc) => pc' \in {"delete_handlers", "check_local"}
             /\ (pc = "delete_handlers" /\ pc' # pc) => pc' = "check_local"
             /\ (pc = "check_local" /\ pc' # pc /\ mUpdateStat = NORMAL) => pc' = "get_local"]_vars

\* The directory could not be created in the first cycle; the second cycle
\* has come to the local update check without any request.
C18_Witness ==
    /\ ~serverAvailable
    /\ ~dirExists
    /\ now = 2
    /\ pc = "get_local"
    /\ hbOutcome = "none"

\* C19: a call of UpdateAccessKey made less than request_access_key_interval
\* seconds after the account's update time returns false and leaves every
\* credential record as it was; and no step, whatever the calls and the
\* clock, makes the update time of an account decrease.
C19_RateLimited ==
    [][/\ \A u \in Aliuids :
            (/\ akResult' # akResult
             /\ akResult'.aliuid = u
             /\ curTime - mUserInfos[u].updateTime < request_access_key_interval)
            => /\ akResult'.ret = FALSE
               /\ mUserInfos' = mUserInfos
       /\ \A u \in Aliuids :
            mUserInfos'[u].updateTime >= mUserInfos[u].updateTime]_vars

\* The keys of u1 were updated at time 2 and a call one second later, inside
\* the interval, was refused.
C19_Witness ==
    /\ mUserInfos["u1"].updateTime = 2
    /\ curTime = 3
    /\ akResult = [aliuid |-> "u1", ret |-> FALSE, lastUpdateTime |-> 2]

C21_PublishAtomic ==
    consumerPc = "drain" => \A k \in Cells : loaded[k] \in {NotLoaded, generation}

\* C22: once mThreadIsRunning is cleared the thread starts no new sync cycle
\* and eventually returns; the flag is tested whenever the thread leaves its
\* sleep (it goes on exactly when the flag is set) and at the end of every
\* iteration (it sleeps exactly when the flag is set).
C22_Cancellation ==
    /\ [][/\ (~mThreadIsRunning /\ pc = "sleep" /\ pc' # pc) => pc' = "done"
          /\ (pc = "sleep" /\ pc' # pc) => (mThreadIsRunning <=> pc' # "done")
          /\ (pc = "loop_end" /\ pc' # pc)
             => pc' = (IF mThreadIsRunning THEN "sleep" ELSE "done")
          /\ ~mThreadIsRunning => ~mThreadIsRunning'
          /\ pc = "done" => pc' = "done"]_vars
    /\ (~mThreadIsRunning) ~> (pc = "done")

\* The flag was cleared in the middle of the apply of the first cycle and the
\* thread has returned without a second cycle.
C22_Witness ==
    /\ pc = "done"
    /\ ~mThreadIsRunning
    /\ now = 1
    /\ DOMAIN files # mNameConfigMap

\* C23: a change whose publish was skipped because the state was
\* UPDATE_CONFIG is not lost. The waiting change is taken only in state NORMAL
\* and by the detection that goes on to publish it, the publish stores
\* UPDATE_CONFIG with the update assembled from the directory, and, with the
\* consumer finishing and the sync loop running, a skipped change is
\* eventually published by a later cycle.
C23_SkippedChangeNotLost ==
    /\ [][(dirChanged /\ ~dirChanged') =>
            /\ mUpdateStat = NORMAL
            /\ pc = "get_local"
            /\ pc' = "start_update"]_vars
    /\ [][(skipped = "skipped" /\ skipped' # skipped) =>
            /\ skipped' = "published"
            /\ mUpdateStat = NORMAL
            /\ mUpdateStat' = UPDATE_CONFIG
            /\ pendingBatch' = DOMAIN files']_vars
    /\ (skipped = "skipped") ~> (skipped = "published" \/ ~mThreadIsRunning)

\* The local check was skipped with a change waiting and a later cycle has
\* published the change.
C23_Witness ==
    /\ skipped = "published"
    /\ mUpdateStat = UPDATE_CONFIG
    /\ mThreadIsRunning
    /\ ~dirChanged
    /\ pc = "loop_end"

\* C24: the background thread accesses the shared update data only while the
\* state is NORMAL and the foreground only while it is UPDATE_CONFIG, and the
\* background thread never changes the configs the foreground serves.
C24_AccessDiscipline ==
    /\ [](pc \in {"delete_handlers", "get_local", "start_update"} => mUpdateStat = NORMAL)
    /\ [](cpc \in {"apply", "finish"} => mUpdateStat = UPDATE_CONFIG)
    /\ [](producerPc = "assemble" => mUpdateStat = NORMAL)
    /\ [](consumerPc = "drain" => \A k \in Cells : loadedAt[k] \in {"none", UPDATE_CONFIG})
    /\ [][mNameConfigMap' # mNameConfigMap => cpc = "apply"]_vars

\* C25: FindBestMatch ranks by specificity. The config returned matches the
\* path and no matching config has more literal segments, or as many and a
\* longer literal prefix; so a config registered literally on the path itself
\* is preferred to one registered with a wildcard or through the depth of an
\* ancestor. Nothing is returned only when nothing matches.
C25_RanksBySpecificity ==
    lastMatch.how # "none" =>
        LET path == lastMatch.path
            matching == {k \in 1..Len(registered) : IsMatch(registered[k], path)}
            literal == {k \in matching : registered[k].segs = path}
        IN  /\ (lastMatch.config = NoConfig) <=> (matching = {})
            /\ lastMatch.config # NoConfig =>
                  /\ lastMatch.config \in matching
                  /\ literal # {} => lastMatch.config \in literal
                  /\ \A k \in matching :
                        LiteralSegments(registered[k]) <= LiteralSegments(registered[lastMatch.config])
                  /\ \A k \in matching :
                        LiteralSegments(registered[k]) = LiteralSegments(registered[lastMatch.config])
                        => LiteralPrefix(registered[k]) <= LiteralPrefix(registered[lastMatch.config])

\* The path /a/b is covered by the config registered on the ancestor /a with
\* depth 1 and by the one registered literally on /a/b, registered in this
\* order, and FindBestMatch has returned the literal one.
C25_Witness ==
    /\ Len(registered) = 2
    /\ registered[1].segs = <<"a">>
    /\ registered[2].segs = <<"a", "b">>
    /\ lastMatch = [path |-> <<"a", "b">>, config |-> 2, how |-> "computed"]

C27_ContentIntegrity ==
    [][(pc = "apply_write" /\ pc' # pc /\ streamOk) =>
          files'[newConfigPath] = ServerDetail(newConfigPath[1], newConfigPath[2]).detail]_vars

\* C28: after any sequence of completed sync cycles every config name has at
\* most one version file in the remote config directory, whatever versions
\* the server reported.
C28_OneVersionFile ==
    pc \in {"sleep", "done"} =>
        \A n \in Names : Cardinality(VersionFilesOf(files, n)) <= 1

\* C29: DoubleBuffer. getReadBuffer and getWriteBuffer always denote
\* different slots, swap exchanges them and two swaps restore the
\* assignment; and a caller holding the reference returned by GetFileTags
\* never has that slot written by UpdateFileTags while it is reading it.
C29_DoubleBuffer ==
    /\ \A c \in Slots :
          /\ getReadBuffer(c) \in Slots
          /\ getWriteBuffer(c) \in Slots
          /\ getReadBuffer(c) # getWriteBuffer(c)
          /\ getReadBuffer(swap(c)) = getWriteBuffer(c)
          /\ getWriteBuffer(swap(c)) = getReadBuffer(c)
          /\ swap(swap(c)) = c
    /\ [][readerPc = "reading" => buffers'[readerSlot] = buffers[readerSlot]]_vars

====
